---- MODULE Spec2Model ----
(***************************************************************************)
(* Discrete denoising sampler of Paellaaa: utils.sample() with its token   *)
(* sampler (gumbel_sample, the typical filter) and DenoiseUNet.add_noise.  *)
(*                                                                         *)
(* Arithmetic.  Logits are integers counted in units of ln 2, so that      *)
(* exp(logit) = 2^logit and every softmax probability is the exact         *)
(* rational SoftW/SoftZ.  Real-valued quantities are compared after        *)
(* multiplying both sides by the (positive) common denominator; floating   *)
(* point rounding is not modelled.                                         *)
(***************************************************************************)
EXTENDS Integers, Naturals, Sequences, FiniteSets, TLC

\* ------------------------------------------------------------------ bounds
NumLabels == 3          \* model.num_labels
GridCells == 2          \* batch * height * width, flattened
MaxT == 2               \* largest number of steps T
MaxLogit == 2           \* denoiser logits range over 0..MaxLogit (units of ln 2)
MaxBatch == 3           \* largest len(batch) given to collate_laion_coco

Classes == 0 .. (NumLabels - 1)
Pos == 1 .. GridCells
Grids == [Pos -> Classes]
Bits == {0, 1}
Masks == [Pos -> Bits]
LogitVecs == [Classes -> 0 .. MaxLogit]

\* typical_mass values as <<numerator, denominator>>, all in (0, 1]
Masses == {<<1, 5>>, <<1, 2>>, <<1, 1>>}
\* temperatures are counted in units of 1/TempDen
TempDen == 10 ^ 6
Temps == {1, TempDen}
\* score of a class removed by masked_fill(-inf)
NegInf == -(2 ^ 30)
\* extreme values of -log(-log(u)), u in [0, 1), in units of ln 2
GumbelLo == -5
GumbelHi == 23
GumbelVals == {GumbelLo, GumbelHi}

\* ------------------------------------------------------------ arithmetic
RECURSIVE SumOver(_, _)
SumOver(f, S) ==
    IF S = {} THEN 0
    ELSE LET e == CHOOSE e \in S : TRUE IN f[e] + SumOver(f, S \ {e})

Abs(n) == IF n < 0 THEN -n ELSE n

MinOf(l) == CHOOSE m \in {l[k] : k \in DOMAIN l} : \A k \in DOMAIN l : m <= l[k]

\* ---------------------------------------------------- the typical filter
\* softmax numerators exp(x - min x); log_softmax and softmax are shift invariant
SoftW(l) == [k \in Classes |-> 2 ^ (l[k] - MinOf(l))]

\* softmax denominator
SoftZ(l) == SumOver(SoftW(l), Classes)

\* c_flat_shifted = |(-log p_k) - entropy|, times SoftZ / ln 2:
\*   -log p_k = log Z - x_k  and  entropy = log Z - sum_j p_j x_j,
\*   so the difference is sum_j p_j x_j - x_k.
TypicalDist(l) ==
    LET w == SoftW(l)
        z == SumOver(w, Classes)
        s == SumOver([j \in Classes |-> w[j] * l[j]], Classes)
    IN [k \in Classes |-> Abs(s - l[k] * z)]

\* torch.sort(c_flat_shifted, descending=False) without stable=True: any
\* ascending order; sorted position j (1-based here) holds class p[j]
SortOrders(c) ==
    {p \in [1 .. NumLabels -> Classes] :
        /\ \A a, b \in 1 .. NumLabels : a # b => p[a] # p[b]
        /\ \A j \in 1 .. (NumLabels - 1) : c[p[j]] <= c[p[j + 1]]}

\* x_flat.gather(-1, x_flat_indices).softmax(-1).cumsum(-1), times SoftZ
Cumsum(l, p) ==
    LET w == SoftW(l)
    IN [j \in 1 .. NumLabels |-> SumOver([t \in 1 .. NumLabels |-> w[p[t]]], 1 .. j)]

\* last_ind = (x_flat_cumsum < typical_mass).sum(), a 0-based index
LastInd(cum, z, mass) ==
    Cardinality({j \in 1 .. NumLabels : cum[j] * mass[2] < mass[1] * z})

\* the override written as [..., :typical_min_tokens - 1]
SortedIndicesToRemove_short(c, p, last_ind, min_tokens) ==
    [j \in 1 .. NumLabels |->
        IF min_tokens > 1 /\ j < min_tokens THEN FALSE
        ELSE c[p[j]] > c[p[last_ind + 1]]]

\* sorted_indices_to_remove = c_flat_sorted > c_flat_sorted.gather(1, last_ind),
\* then the typical_min_tokens override
SortedIndicesToRemove(c, p, last_ind, min_tokens) ==
    [j \in 1 .. NumLabels |->
        IF min_tokens > 1 /\ j <= min_tokens THEN FALSE
        ELSE c[p[j]] > c[p[last_ind + 1]]]

\* scatter(1, x_flat_indices, sorted_indices_to_remove): out[p[j]] = src[j]
IndicesToRemove(sorted_remove, p) ==
    [k \in Classes |-> sorted_remove[CHOOSE j \in 1 .. NumLabels : p[j] = k]]

\* lines 118-131 for one sort order p: x_flat.masked_fill(indices_to_remove, -inf)
TypicalFilter(l, p, mass, min_tokens) ==
    LET last_ind == LastInd(Cumsum(l, p), SoftZ(l), mass)
        remove == IndicesToRemove(
                    SortedIndicesToRemove(TypicalDist(l), p, last_ind, min_tokens), p)
    IN [k \in Classes |-> IF remove[k] THEN NegInf ELSE l[k]]

Finite(v) == {k \in Classes : v[k] # NegInf}

\* --------------------------------------------------------- gumbel_sample
\* temperatures[i] of torch.linspace(temp_range[0], temp_range[1], T), times
\* TempDenom(T); linspace with one point is [temp_range[0]]
TempDenom(T) == IF T > 1 THEN T - 1 ELSE 1

Temperature(temp_range, T, i) ==
    temp_range[1] * TempDenom(T) + i * (temp_range[2] - temp_range[1])

\* a score that takes a removed class (-inf) as logit 0
GumbelScore_unmasked(v, g, T, temp) ==
    (IF v = NegInf THEN 0 ELSE v) * TempDen * TempDenom(T) + g * temp

\* t / max(temperature, 1e-10) + gumbel_noise(t) for one class, multiplied by the
\* positive number temperature * TempDenom(T); temp is Temperature(..) above.
\* Every modelled temperature is at least 1/TempDen, above the floor 1e-10, so
\* max() returns the temperature.  -inf stays -inf.
GumbelScore(v, g, T, temp) ==
    IF v = NegInf THEN NegInf ELSE v * TempDen * TempDenom(T) + g * temp

\* argmax(dim=-1): the first index of the largest score
GumbelSample(v, g, T, temp) ==
    CHOOSE k \in Classes :
        /\ \A j \in Classes : GumbelScore(v[j], g[j], T, temp) <= GumbelScore(v[k], g[k], T, temp)
        /\ \A j \in Classes : j < k => GumbelScore(v[j], g[j], T, temp) < GumbelScore(v[k], g[k], T, temp)

\* ------------------------------------------------- DenoiseUNet.add_noise
\* gamma(r) = cos(r * pi / 2) for r = num/den in [0, 1]: 1 at r = 0, 0 at r = 1,
\* strictly between otherwise; torch.bernoulli(gamma) then .round().long()
\* gives the values a mask cell can take
BernoulliValues(num, den) ==
    IF num = 0 THEN {1} ELSE IF num = den THEN {0} ELSE {0, 1}

NoiseMasks(num, den) == [Pos -> BernoulliValues(num, den)]

\* random_x is None: torch.randint_like(x, 0, num_labels); else the given grid
RandomXs(given, random_x) == IF given THEN {random_x} ELSE Grids

\* add_noise with the roles of mask and 1 - mask exchanged
AddNoise_swapped(x, mask, random_x) ==
    [p \in Pos |-> x[p] * mask[p] + random_x[p] * (1 - mask[p])]

\* x = x * (1 - mask) + random_x * mask
AddNoise(x, mask, random_x) ==
    [p \in Pos |-> x[p] * (1 - mask[p]) + random_x[p] * mask[p]]

\* ------------------------------------------------------------ the denoiser
\* model(x, c, r, c_full): a deterministic function of the token grid and of
\* the conditioning; conditioned = FALSE is the call with zeroed c and c_full.
\* A denoiser is a table from the token at a position to the logits there.
Forward(model, x, conditioned) ==
    [p \in Pos |-> IF conditioned THEN model.cond[x[p]] ELSE model.uncond[x[p]]]

\* stub denoisers returning fixed logits, v conditioned and u unconditioned
Stub(v, u) == [cond |-> [t \in Classes |-> v], uncond |-> [t \in Classes |-> u]]

OneHot(k) == [c \in Classes |-> IF c = k THEN MaxLogit ELSE 0]

\* a denoiser whose output depends on its input grid
TokenDenoiser ==
    [cond |-> [t \in Classes |-> OneHot((t + 1) % NumLabels)],
     uncond |-> [t \in Classes |-> OneHot(t)]]

\* ------------------------------------------------------- sample(): pieces
\* r_range = torch.linspace(0, 1, T+1)[:-1]: entries j/T for j in 0..T-1,
\* kept as the numerator j
RRange(T) == [j \in 0 .. (T - 1) |-> j]

\* lerp with its two ends exchanged
Lerp_swapped(start, end, weight) ==
    [p \in Pos |-> [k \in Classes |-> end[p][k] + weight * (start[p][k] - end[p][k])]]

\* torch.lerp(logits_uncond, logits, classifier_free_scale)
Lerp(start, end, weight) ==
    [p \in Pos |-> [k \in Classes |-> start[p][k] + weight * (end[p][k] - start[p][k])]]

\* a blend that adds b everywhere, without the factor (1 - mask)
MaskBlend_unweighted(a, mask, b) == [p \in Pos |-> a[p] * mask[p] + b[p]]

\* x = noise * mask + (1 - mask) * x   and   x = x * mask + (1 - mask) * init_x
MaskBlend(a, mask, b) == [p \in Pos |-> a[p] * mask[p] + (1 - mask[p]) * b[p]]

\* the re-noising test written as i <= renoise_steps
Renoises_le(i, renoise_steps) == i <= renoise_steps

\* if i < renoise_steps
Renoises(i, renoise_steps) == i < renoise_steps

\* the replacement grid with 'start' and 'prev' exchanged
RenoiseSource_swapped(mode, start_x, before_x) ==
    IF mode = "start" THEN before_x ELSE start_x

\* lines 138-141: random_x=init_x in mode 'start', random_x=prev_x in mode 'prev'
\* (mode 'rand' passes no random_x and add_noise draws one)
RenoiseSource(mode, start_x, before_x) ==
    IF mode = "start" THEN start_x ELSE before_x

\* lines 116-134 at one position: the pairs <<x_flat after the optional filter,
\* sampled token>> over every sort order and every gumbel noise
SampleOutcomes(l, a, i) ==
    {<<f, GumbelSample(f, g, a.T, Temperature(a.temp_range, a.T, i))>> :
        f \in (IF a.typical_filtering
               THEN {TypicalFilter(l, p, a.typical_mass, a.typical_min_tokens) :
                        p \in SortOrders(TypicalDist(l))}
               ELSE {l}),
        g \in [Classes -> GumbelVals]}

ZeroGrid == [p \in Pos |-> 0]
ZeroLogits == [p \in Pos |-> [k \in Classes |-> 0]]
RampGrid == [p \in Pos |-> (p - 1) % NumLabels]
TopGrid == [p \in Pos |-> NumLabels - 1]
OnesMask == [p \in Pos |-> 1]

VARIABLES
    call,           \* harness of the pure functions (typical filter, add_noise)
    args,           \* the arguments of sample()
    x, init_x, prev_x, i,   \* locals of sample()
    pc,             \* "idle", "loop", "done" (returned), "failed" (raised)
    failure,        \* "none", "denoiser", "IndexError"
    result,         \* the returned grid, meaningful when pc = "done"
    x_in, r_in,     \* arguments of the last denoiser invocation (r as numerator over T)
    logits_cond, logits_uncond, logits,   \* denoiser outputs and the logits sampled from
    x_flat,         \* logits after the optional typical filter
    sampled,        \* tokens drawn by gumbel_sample in the last step
    restored,       \* the grid after the mask restoration of the last step
    noise_calls,    \* number of add_noise invocations
    steps           \* indices of the completed loop iterations

hist == <<x_in, r_in, logits_cond, logits_uncond, logits, x_flat, sampled, restored,
          noise_calls, steps>>
svars == <<args, x, init_x, prev_x, i, pc, failure, result>>
vars == <<call, svars, hist>>

DefaultArgs ==
    [T |-> MaxT, starting_t |-> 0, temp_range |-> <<TempDen, TempDen>>,
     typical_filtering |-> TRUE, typical_mass |-> <<1, 5>>, typical_min_tokens |-> 1,
     classifier_free_scale |-> -1, renoise_steps |-> MaxT - 1, renoise_mode |-> "start",
     x_given |-> FALSE, x |-> ZeroGrid, mask_given |-> FALSE, mask |-> OnesMask,
     model |-> TokenDenoiser]

HistInit ==
    /\ x_in = ZeroGrid /\ r_in = 0
    /\ logits_cond = ZeroLogits /\ logits_uncond = ZeroLogits /\ logits = ZeroLogits
    /\ x_flat = ZeroLogits /\ sampled = ZeroGrid /\ restored = ZeroGrid
    /\ noise_calls = 0 /\ steps = <<>>

\* sample() is not running
SampleIdle ==
    /\ args = DefaultArgs /\ x = ZeroGrid /\ init_x = ZeroGrid /\ prev_x = ZeroGrid
    /\ i = 0 /\ pc = "idle" /\ failure = "none" /\ result = ZeroGrid
    /\ HistInit

NoCall == [fn |-> "none", st |-> "done"]


\* ------------------------------------------- harness: the typical filter
InitFilter ==
    \E l \in LogitVecs, mass \in Masses, mt \in 1 .. NumLabels :
        call = [fn |-> "typical_filter", st |-> "ready", logits |-> l, mass |-> mass,
                min_tokens |-> mt, order |-> [j \in 1 .. NumLabels |-> j - 1],
                out |-> l]
    /\ SampleIdle

ApplyTypicalFilter ==
    /\ call.st = "ready"
    /\ \E p \in SortOrders(TypicalDist(call.logits)) :
        call' = [call EXCEPT !.st = "done", !.order = p,
                    !.out = TypicalFilter(call.logits, p, call.mass, call.min_tokens)]
    /\ UNCHANGED <<svars, hist>>

NextFilter == ApplyTypicalFilter

SpecFilter == InitFilter /\ [][NextFilter]_vars

\* ------------------------------------------------- harness: add_noise
\* progress values r = num/MaxT offered to add_noise, both ends included
InitNoise ==
    /\ \E g \in Grids, num \in 0 .. MaxT, given \in BOOLEAN, rx \in {RampGrid, TopGrid} :
        call = [fn |-> "add_noise", st |-> "ready", x |-> g, r |-> num,
                random_given |-> given, random_x |-> IF given THEN rx ELSE ZeroGrid,
                out |-> g, mask |-> OnesMask]
    /\ SampleIdle

CallAddNoise ==
    /\ call.st = "ready"
    /\ \E m \in NoiseMasks(call.r, MaxT), rx \in RandomXs(call.random_given, call.random_x) :
        call' = [call EXCEPT !.st = "done", !.mask = m, !.random_x = rx,
                    !.out = AddNoise(call.x, m, rx)]
    /\ UNCHANGED <<svars, hist>>

NextNoise == CallAddNoise

SpecNoise == InitNoise /\ [][NextNoise]_vars

\* ------------------------------------------------------------- sample()
\* the fixed logits of the stub denoisers: one class favoured, a ramp, all equal
RampLogits == [c \in Classes |-> IF c < MaxLogit THEN c ELSE MaxLogit]
StubLogits == {OneHot(k) : k \in Classes} \cup {RampLogits, [c \in Classes |-> 0]}

\* the masks offered with a caller's grid
MaskInputs == {[p \in Pos |-> p % 2], [p \in Pos |-> 0]}

\* schedules: every T, starting_t and renoise_steps; 'rand' and a random
\* initial grid with the other options at their defaults
ScheduleArgs ==
    {[DefaultArgs EXCEPT !.T = t, !.starting_t = s, !.renoise_steps = rs,
                         !.renoise_mode = m, !.typical_filtering = FALSE,
                         !.temp_range = <<1, 1>>, !.x_given = TRUE, !.x = RampGrid] :
        t \in 1 .. MaxT, s \in 0 .. (MaxT - 1), rs \in 0 .. MaxT, m \in {"start", "prev"}}
    \cup {[DefaultArgs EXCEPT !.renoise_mode = "rand", !.typical_filtering = FALSE,
                              !.temp_range = <<1, 1>>, !.x_given = TRUE, !.x = RampGrid],
          [DefaultArgs EXCEPT !.renoise_steps = 0, !.temp_range = <<1, 1>>]}

\* inpainting: a mask, with and without the caller's grid, re-noised at most once
MaskArgs ==
    {[DefaultArgs EXCEPT !.renoise_steps = rs, !.renoise_mode = m,
                         !.typical_filtering = FALSE, !.temp_range = <<1, 1>>,
                         !.x_given = xg, !.x = RampGrid, !.mask_given = TRUE,
                         !.mask = k] :
        rs \in {0, 1}, m \in {"start", "prev", "rand"}, xg \in BOOLEAN, k \in MaskInputs}

\* sampler options over the stub denoisers, one step; the default options
\* with T = 1; interpolated temperatures over MaxT steps
SamplerArgs ==
    {[DefaultArgs EXCEPT !.T = 1, !.renoise_steps = 0,
                         !.typical_filtering = tf[1], !.typical_mass = tf[2],
                         !.typical_min_tokens = tf[3], !.temp_range = <<t, t>>,
                         !.x_given = TRUE, !.x = RampGrid, !.model = Stub(v, v)] :
        tf \in {<<FALSE, <<1, 5>>, 1>>}
               \cup {<<TRUE, mass, mt>> : mass \in Masses, mt \in 1 .. NumLabels},
        t \in Temps, v \in StubLogits}
    \cup {[DefaultArgs EXCEPT !.T = 1, !.temp_range = <<1, 1>>, !.x_given = TRUE,
                              !.x = RampGrid, !.model = Stub(v, v)] :
            v \in StubLogits}
    \cup {[DefaultArgs EXCEPT !.renoise_steps = 0, !.typical_filtering = tf,
                              !.temp_range = <<TempDen, 1>>, !.x_given = TRUE,
                              !.x = RampGrid, !.model = Stub(OneHot(k), OneHot(k))] :
            tf \in BOOLEAN, k \in Classes}

\* classifier-free guidance: disabled (-1) and scales 0, 1, 2
GuidanceArgs ==
    {[DefaultArgs EXCEPT !.T = 1, !.renoise_steps = 0, !.typical_filtering = FALSE,
                         !.classifier_free_scale = sc, !.temp_range = <<1, 1>>,
                         !.x_given = TRUE, !.x = RampGrid, !.model = Stub(v, u)] :
        sc \in -1 .. 2, v \in StubLogits, u \in StubLogits}

ArgSets ==
    {a \in ScheduleArgs \cup MaskArgs \cup SamplerArgs \cup GuidanceArgs : a.starting_t < a.T}

\* lines 100-105: the grid on entry to the loop
InitialGrids(a) ==
    IF ~a.x_given THEN Grids
    ELSE IF a.mask_given THEN {MaskBlend(noise, a.mask, a.x) : noise \in Grids}
    ELSE {a.x}

Init ==
    /\ call = NoCall
    /\ args \in ArgSets
    /\ x \in InitialGrids(args)
    /\ init_x = x
    /\ prev_x = ZeroGrid
    /\ i = args.starting_t
    /\ pc = "loop" /\ failure = "none" /\ result = ZeroGrid
    /\ HistInit

\* lines 111-115: the logits sampled from
Guided(cond, uncond, scale) == IF scale >= 0 THEN Lerp(uncond, cond, scale) ELSE cond

\* every grid (a sequence over Pos) that takes its value at p from outs[p], p <= n
RECURSIVE OutcomeGrids(_, _)
OutcomeGrids(outs, n) ==
    IF n = 0 THEN {<<>>}
    ELSE {Append(g, o) : g \in OutcomeGrids(outs, n - 1), o \in outs[n]}

\* lines 116-134 over the grid: one outcome per position
StepOutcomes(a, g, step) ==
    LET lg == Guided(Forward(a.model, g, TRUE),
                     IF a.classifier_free_scale >= 0
                     THEN Forward(a.model, g, FALSE) ELSE ZeroLogits,
                     a.classifier_free_scale)
    IN OutcomeGrids([p \in Pos |-> SampleOutcomes(lg[p], a, step)], GridCells)

\* lines 107-136 of one iteration: denoise, guide, filter, sample, restore
Body(o) ==
    /\ prev_x' = IF args.renoise_mode = "prev" THEN x ELSE prev_x
    /\ x_in' = x /\ r_in' = RRange(args.T)[i]
    /\ logits_cond' = Forward(args.model, x, TRUE)
    /\ logits_uncond' = IF args.classifier_free_scale >= 0
                        THEN Forward(args.model, x, FALSE) ELSE ZeroLogits
    /\ logits' = Guided(logits_cond', logits_uncond', args.classifier_free_scale)
    /\ x_flat' = [p \in Pos |-> o[p][1]]
    /\ sampled' = [p \in Pos |-> o[p][2]]
    /\ restored' = IF args.mask_given THEN MaskBlend(sampled', args.mask, init_x)
                   ELSE sampled'

\* one loop iteration that runs to its end
Step ==
    /\ pc = "loop" /\ i < args.T
    /\ Renoises(i, args.renoise_steps) => i + 1 \in DOMAIN RRange(args.T)
    /\ \E o \in StepOutcomes(args, x, i) : Body(o)
    /\ IF Renoises(i, args.renoise_steps)
       THEN /\ \E m \in NoiseMasks(RRange(args.T)[i + 1], args.T),
                  rx \in RandomXs(args.renoise_mode # "rand",
                                  RenoiseSource(args.renoise_mode, init_x, prev_x')) :
                x' = AddNoise(restored', m, rx)
            /\ noise_calls' = noise_calls + 1
       ELSE /\ x' = restored'
            /\ UNCHANGED noise_calls
    /\ i' = i + 1
    /\ steps' = Append(steps, i)
    /\ UNCHANGED <<call, args, init_x, pc, failure, result>>

\* one loop iteration whose lookup r_range[i+1] raises IndexError
StepIndexError ==
    /\ pc = "loop" /\ i < args.T
    /\ Renoises(i, args.renoise_steps)
    /\ i + 1 \notin DOMAIN RRange(args.T)
    /\ \E o \in StepOutcomes(args, x, i) : Body(o)
    /\ x' = restored'
    /\ pc' = "failed" /\ failure' = "IndexError"
    /\ UNCHANGED <<call, args, init_x, i, result, noise_calls, steps>>

\* a loop that swallows the denoiser's exception and goes on to the next iteration
DenoiserRaises_swallowed ==
    /\ pc = "loop" /\ i < args.T
    /\ prev_x' = IF args.renoise_mode = "prev" THEN x ELSE prev_x
    /\ x_in' = x /\ r_in' = RRange(args.T)[i]
    /\ i' = i + 1 /\ failure' = "denoiser"
    /\ UNCHANGED <<call, args, x, init_x, pc, result, logits_cond, logits_uncond, logits,
                   x_flat, sampled, restored, noise_calls, steps>>

\* the denoiser invocation of iteration i raises; sample() has no handler
DenoiserRaises ==
    /\ pc = "loop" /\ i < args.T
    /\ prev_x' = IF args.renoise_mode = "prev" THEN x ELSE prev_x
    /\ x_in' = x /\ r_in' = RRange(args.T)[i]
    /\ pc' = "failed" /\ failure' = "denoiser"
    /\ UNCHANGED <<call, args, x, init_x, i, result, logits_cond, logits_uncond, logits,
                   x_flat, sampled, restored, noise_calls, steps>>

\* line 144: return x.detach()
Return ==
    /\ pc = "loop" /\ i >= args.T
    /\ result' = x
    /\ pc' = "done"
    /\ UNCHANGED <<call, args, x, init_x, prev_x, i, failure, hist>>

Next == Step \/ StepIndexError \/ DenoiserRaises \/ Return

Spec == Init /\ [][Next]_vars

\* --------------------------------------------- harness: collate_laion_coco
\* The record call holds the batch, each row's future ("running", "result",
\* "exception", then "yielded" by as_completed), the rows whose download
\* succeeded, the list images_pil and the two returned lists.
\* row idx of a batch: its URL (rows 0 and 3 share one) and its caption fields
Row(idx) ==
    [URL |-> idx % 3, TEXT |-> 10 * idx, top_caption |-> 10 * idx + 1,
     all_captions |-> <<10 * idx + 1>>]

Batch(n) == [idx \in 0 .. (n - 1) |-> Row(idx)]

\* Image.open(BytesIO(response.content)) of a successful requests.get(url)
ImageAt(url) == [from |-> url]

\* lines 187-192: load_url returns (img, url_tup[0]), the image with its row index
LoadUrl(url_tup) == <<ImageAt(url_tup[2]), url_tup[1]>>

\* lines 220-224: list(set([TEXT] + [top_caption] + all_captions))
CaptionsChoices(row) ==
    {row.TEXT, row.top_caption}
        \cup {row.all_captions[j] : j \in 1 .. Len(row.all_captions)}

\* line 210: success_idxs = {val[1] for val in images_pil}
SuccessIdxs(images_pil) == {images_pil[j][2] : j \in 1 .. Len(images_pil)}

\* line 216: next((x[0] for x in images_pil if x[1] == idx), None)
FirstImage(images_pil, idx) ==
    LET j == CHOOSE j \in 1 .. Len(images_pil) :
                /\ images_pil[j][2] = idx
                /\ \A t \in 1 .. (j - 1) : images_pil[t][2] # idx
    IN images_pil[j][1]

\* the rows of 0 .. n-1 that are in S, in increasing order
RECURSIVE RowsIn(_, _)
RowsIn(S, n) ==
    IF n = 0 THEN <<>>
    ELSE IF (n - 1) \in S THEN Append(RowsIn(S, n - 1), n - 1) ELSE RowsIn(S, n - 1)

\* lines 195-198: every row's download is submitted to the pool; as_completed
\* takes the whole generator before it yields the first future
InitCollate ==
    /\ \E n \in 1 .. MaxBatch :
        call = [fn |-> "collate_laion_coco", st |-> "downloading", batch |-> Batch(n),
                future |-> [idx \in 0 .. (n - 1) |-> "running"],
                succeeded |-> {},
                images_pil |-> <<>>, images |-> <<>>, captions |-> <<>>]
    /\ SampleIdle

\* a worker thread's load_url returns
DownloadSucceeds ==
    /\ call.st = "downloading"
    /\ \E idx \in DOMAIN call.future :
        /\ call.future[idx] = "running"
        /\ call' = [call EXCEPT !.future[idx] = "result",
                                !.succeeded = @ \cup {idx}]
    /\ UNCHANGED <<svars, hist>>

\* a worker thread's load_url raises (connection error, timeout, not an image)
DownloadFails ==
    /\ call.st = "downloading"
    /\ \E idx \in DOMAIN call.future :
        /\ call.future[idx] = "running"
        /\ call' = [call EXCEPT !.future[idx] = "exception"]
    /\ UNCHANGED <<svars, hist>>

\* lines 198-201: as_completed yields a finished future, result() returns
CollectResult ==
    /\ call.st = "downloading"
    /\ \E idx \in DOMAIN call.future :
        /\ call.future[idx] = "result"
        /\ call' = [call EXCEPT !.future[idx] = "yielded",
                        !.images_pil = Append(@, LoadUrl(<<idx, call.batch[idx].URL>>))]
    /\ UNCHANGED <<svars, hist>>

\* lines 198-206: as_completed yields a finished future, result() raises: pass
CollectException ==
    /\ call.st = "downloading"
    /\ \E idx \in DOMAIN call.future :
        /\ call.future[idx] = "exception"
        /\ call' = [call EXCEPT !.future[idx] = "yielded"]
    /\ UNCHANGED <<svars, hist>>

\* the rows whose image was collected, in batch order (lines 209-226: final_batch)
FinalRows(c) == RowsIn(SuccessIdxs(c.images_pil), Cardinality(DOMAIN c.batch))

\* lines 208-232 after the last future: final_batch, captions, images, return
Assemble ==
    /\ call.st = "downloading"
    /\ \A idx \in DOMAIN call.future : call.future[idx] = "yielded"
    /\ FinalRows(call) # <<>>
    /\ LET final_rows == FinalRows(call)
       IN \E chosen \in OutcomeGrids(
                    [k \in 1 .. Len(final_rows) |->
                        CaptionsChoices(call.batch[final_rows[k]])], Len(final_rows)) :
            call' = [call EXCEPT
                    !.st = "done",
                    !.captions = chosen,
                    !.images = [k \in 1 .. Len(final_rows) |->
                                    FirstImage(call.images_pil, final_rows[k])]]
    /\ UNCHANGED <<svars, hist>>

\* lines 230-231 with an empty final_batch: torch.cat of an empty list raises
\* RuntimeError, nothing is returned
AssembleRaises ==
    /\ call.st = "downloading"
    /\ \A idx \in DOMAIN call.future : call.future[idx] = "yielded"
    /\ FinalRows(call) = <<>>
    /\ call' = [call EXCEPT !.st = "failed"]
    /\ UNCHANGED <<svars, hist>>

NextCollate ==
    \/ DownloadSucceeds \/ DownloadFails \/ CollectResult \/ CollectException
    \/ Assemble \/ AssembleRaises

SpecCollate == InitCollate /\ [][NextCollate]_vars

\* =================================================================== claims
\* the body of at least one iteration has run (its history is recorded)
BodyRan == steps # <<>> \/ failure = "IndexError"

\* ---------------------------------------------------------------------- C1
\* C1: with both x and mask supplied, in the initial state and after every
\* step (re-noising included) the grid holds the caller's token wherever mask = 0.
C1_MaskedCellsKeepCallerToken ==
    (args.x_given /\ args.mask_given /\ pc \in {"loop", "done"}) =>
        \A p \in Pos : args.mask[p] = 0 => x[p] = args.x[p]

\* ---------------------------------------------------------------------- C2
\* C2: add_noise returns a mask of 0s and 1s and a grid equal to x where
\* mask = 0 and to random_x (supplied or drawn) where mask = 1.
C2_AddNoiseReplacesExactlyMasked ==
    (call.fn = "add_noise" /\ call.st = "done") =>
        \A p \in Pos :
            /\ call.mask[p] \in {0, 1}
            /\ call.mask[p] = 0 => call.out[p] = call.x[p]
            /\ call.mask[p] = 1 => call.out[p] = call.random_x[p]

C2_Witness ==
    /\ call.fn = "add_noise" /\ call.st = "done" /\ ~call.random_given
    /\ \E p, q \in Pos :
        /\ call.mask[p] = 0 /\ call.mask[q] = 1
        /\ call.x[p] # call.random_x[p] /\ call.x[q] # call.random_x[q]

\* ---------------------------------------------------------------------- C3
\* C3: the typical filter leaves at least typical_min_tokens classes with a
\* finite score (it removes at most num_labels - typical_min_tokens classes).
C3_FilterKeepsMinTokens ==
    (call.fn = "typical_filter" /\ call.st = "done") =>
        /\ Cardinality(Finite(call.out)) >= call.min_tokens
        /\ Cardinality(Classes \ Finite(call.out)) <= NumLabels - call.min_tokens

C3_Witness ==
    /\ call.fn = "typical_filter" /\ call.st = "done"
    /\ call.min_tokens > 1 /\ call.min_tokens < NumLabels
    /\ Cardinality(Finite(call.out)) = call.min_tokens
    /\ LastInd(Cumsum(call.logits, call.order), SoftZ(call.logits), call.mass) = 0

\* ---------------------------------------------------------------------- C4
\* the class a stub denoiser with fixed logits favours strictly, as a set
FavouredClasses(model) ==
    {k \in Classes :
        \E v \in StubLogits :
            /\ model = Stub(v, v)
            /\ \A j \in Classes : j # k => v[j] < v[k]}

\* C4: with T = 1, starting_t = 0, temp_range = [1e-6, 1e-6] and a stub denoiser
\* favouring class k, sample() completes and returns k at every position,
\* whatever the remaining options.
C4_OneStepReturnsFavouredClass ==
    \A k \in FavouredClasses(args.model) :
        (args.T = 1 /\ args.starting_t = 0 /\ args.temp_range = <<1, 1>>
            /\ ~args.mask_given /\ failure # "denoiser") =>
                /\ pc # "failed"
                /\ pc = "done" => \A p \in Pos : result[p] = k

\* ---------------------------------------------------------------------- C5
\* C5 as stated: with renoise_steps = 0 add_noise is never applied and the grid
\* the next denoiser invocation receives is exactly the grid of sampled tokens,
\* mask or no mask.
C5_NextInputIsSampled ==
    args.renoise_steps = 0 =>
        /\ noise_calls = 0
        /\ (pc = "loop" /\ steps # <<>> /\ i < args.T) => x = sampled

\* C5 amended: with renoise_steps = 0 add_noise is never applied and the grid the
\* next denoiser invocation receives holds the sampled token where no mask is
\* supplied or mask = 1, and the initial grid's token where mask = 0.
C5_NextInputIsRestoredSample ==
    args.renoise_steps = 0 =>
        /\ noise_calls = 0
        /\ (pc = "loop" /\ steps # <<>> /\ i < args.T) =>
                \A p \in Pos :
                    x[p] = IF args.mask_given /\ args.mask[p] = 0
                           THEN init_x[p] ELSE sampled[p]

C5_Witness ==
    /\ args.renoise_steps = 0 /\ args.mask_given
    /\ pc = "loop" /\ steps # <<>> /\ i < args.T
    /\ \E p, q \in Pos :
        /\ args.mask[p] = 0 /\ x[p] # sampled[p]
        /\ args.mask[q] = 1 /\ x[q] # init_x[q]

\* ---------------------------------------------------------------------- C6
\* C6: with classifier_free_scale = s >= 0 the logits sampled from are
\* unconditioned + s * (conditioned - unconditioned): the conditioned logits
\* for s = 1, as with guidance disabled, and the unconditioned ones for s = 0.
C6_GuidanceBlend ==
    BodyRan =>
        /\ failure # "denoiser" => logits_cond = Forward(args.model, x_in, TRUE)
        /\ args.classifier_free_scale >= 0 =>
            /\ failure # "denoiser" => logits_uncond = Forward(args.model, x_in, FALSE)
            /\ \A p \in Pos, k \in Classes :
                logits[p][k] = logits_uncond[p][k]
                    + args.classifier_free_scale * (logits_cond[p][k] - logits_uncond[p][k])
        /\ args.classifier_free_scale = 1 => logits = logits_cond
        /\ args.classifier_free_scale = 0 => logits = logits_uncond
        /\ args.classifier_free_scale < 0 => logits = logits_cond

C6_Witness ==
    /\ BodyRan /\ args.classifier_free_scale = 1
    /\ logits_cond # logits_uncond /\ logits = logits_cond

\* ---------------------------------------------------------------------- C7
\* C7: for renoise_steps in [0, T] (T included) every re-noising finds its
\* progress value r_{i+1}: sample() never fails on the lookup in r_range.
C7_ScheduleLookupDefined ==
    (args.starting_t < args.T /\ args.renoise_steps <= args.T) =>
        /\ failure # "IndexError"
        /\ pc = "failed" => failure = "denoiser"

\* ---------------------------------------------------------------------- C8
\* C8: a failing denoiser invocation ends the call at once: the failing step
\* samples and re-noises nothing and afterwards nothing happens at all, so no
\* later invocation, no retry and no returned grid.
C8_DenoiserFailureAborts ==
    [][ /\ (failure' = "denoiser" /\ failure = "none") =>
                /\ pc' = "failed"
                /\ <<x, i, steps, sampled, restored, noise_calls, result>>'
                        = <<x, i, steps, sampled, restored, noise_calls, result>>
        /\ failure = "denoiser" => (pc = "failed" /\ UNCHANGED vars) ]_vars

C8_Witness ==
    /\ failure = "denoiser" /\ pc = "failed"
    /\ i + 1 < args.T

\* ---------------------------------------------------------------------- C9
\* the 1-based sorted position at which the cumulative mass first reaches typical_mass
CutoffPos(l, p, mass) ==
    CHOOSE j \in 1 .. NumLabels :
        /\ Cumsum(l, p)[j] * mass[2] >= mass[1] * SoftZ(l)
        /\ \A t \in 1 .. (j - 1) : Cumsum(l, p)[t] * mass[2] < mass[1] * SoftZ(l)

\* C9: the kept classes are exactly the prefix of the sorted order that ends at
\* the cutoff (or at typical_min_tokens if that is later); all others are removed.
C9_KeptIsSortedPrefix ==
    (call.fn = "typical_filter" /\ call.st = "done") =>
        LET cut == CutoffPos(call.logits, call.order, call.mass)
            last == IF call.min_tokens > 1 /\ call.min_tokens > cut
                    THEN call.min_tokens ELSE cut
        IN Finite(call.out) = {call.order[j] : j \in 1 .. last}

\* --------------------------------------------------------------------- C10
\* C10: the steps starting_t .. T-1 run once each in increasing order, the
\* denoiser of step i is given r_i = i/T, and the call then returns the grid of
\* step T-1.
C10_StepsRunInOrderAndReturn ==
    (failure # "denoiser" /\ args.renoise_steps <= args.T) =>
        /\ pc # "failed"
        /\ steps = [j \in 1 .. Len(steps) |-> args.starting_t + j - 1]
        /\ i = args.starting_t + Len(steps)
        /\ steps # <<>> => r_in = steps[Len(steps)]
        /\ pc = "done" => (i = args.T /\ result = x)

C12_SampledTokenIsKept ==
    (args.typical_filtering /\ BodyRan) =>
        \A p \in Pos :
            /\ sampled[p] \in Finite(x_flat[p])
            /\ x_flat[p][sampled[p]] = logits[p][sampled[p]]

\* at temperature 1.0 the filter removed a class with a larger logit than the
\* sampled one
C12_Witness ==
    /\ args.typical_filtering /\ BodyRan
    /\ Temperature(args.temp_range, args.T, 0) = TempDen * TempDenom(args.T)
    /\ \E p \in Pos, k \in Classes :
        /\ x_flat[p][k] = NegInf /\ logits[p][k] > logits[p][sampled[p]]

\* --------------------------------------------------------------------- C13
\* C13: with the caller's grid (when given) in [0, num_labels) and the mask (when
\* given) in {0, 1}, every token of the grid is in [0, num_labels) initially,
\* after every step in every renoise_mode, and in the returned grid.
C13_TokensInRange ==
    ((args.x_given => args.x \in Grids) /\ (args.mask_given => args.mask \in Masks)) =>
        /\ \A p \in Pos : x[p] \in Classes /\ init_x[p] \in Classes
        /\ BodyRan => \A p \in Pos : sampled[p] \in Classes /\ restored[p] \in Classes
        /\ pc = "done" => \A p \in Pos : result[p] \in Classes

\* a returned grid of an inpainting call that re-noised: the highest class at a
\* cell the mask leaves free, the caller's token at a cell it fixes
C13_Witness ==
    /\ pc = "done" /\ args.x_given /\ args.mask_given /\ noise_calls > 0
    /\ \E p, q \in Pos :
        /\ args.mask[p] = 1 /\ result[p] = NumLabels - 1
        /\ args.mask[q] = 0 /\ result[q] = args.x[q]

\* --------------------------------------------------------------------- C14
\* C14: whichever downloads fail (all of them included) and in whatever order
\* they complete, collate_laion_coco returns images and captions of equal
\* length, one entry per row whose download succeeded, in batch row order, the
\* k-th image and the k-th caption both from the k-th such row.
C14_ImagesAlignWithCaptions ==
    call.fn = "collate_laion_coco" =>
        /\ call.st # "failed"
        /\ call.st = "done" =>
            LET ok == RowsIn(call.succeeded, Cardinality(DOMAIN call.batch))
            IN /\ Len(call.images) = Len(call.captions)
               /\ Len(call.images) = Len(ok)
               /\ \A k \in 1 .. Len(ok) :
                    /\ call.images[k] = ImageAt(call.batch[ok[k]].URL)
                    /\ call.captions[k] \in CaptionsChoices(call.batch[ok[k]])

====
